---------------------------- MODULE Spec2Model ----------------------------
(***************************************************************************)
(* A model of vmtranslator.py: the parser that classifies VM lines, the    *)
(* code generators that turn each parsed command into Hack assembly, the   *)
(* driver that gates and writes the output, and the Hack machine on which  *)
(* the emitted assembly runs.                                              *)
(*                                                                         *)
(* An emitted line is a record [t, s, c]: t is "@" for an A-instruction    *)
(* ("@" + s), "C" for a C-instruction (s is its text), "L" for a label     *)
(* definition ("(" + s + ")"), "//" for a comment line and "" for an empty *)
(* line; c is a trailing comment.                                          *)
(***************************************************************************)
EXTENDS Integers, Sequences, FiniteSets, TLC

VARIABLES
    phase,            \* position of the main program
    fileCount,        \* number of .vm files opened so far
    fileName,         \* name of the file being parsed
    lineNumber,
    processedLines,
    errors,
    sys_init,
    comparisonCount,
    callCount,
    functionName,
    hackCommands,
    lineIndex,        \* position of the translation loop in processedLines
    output,           \* the lines written to the .asm file
    written,          \* TRUE once the .asm file has been opened for writing
    rom,              \* the assembled program the machine runs
    pc, A, D, ram,    \* Hack CPU registers and data memory
    ram0,             \* history: data memory when the machine started
    entry,            \* history: data memory when the current command began
    exited,           \* history: the command whose code has just been left
    frames,           \* history: calls entered and not yet returned from
    returned,         \* history: the frame of the return just completed
    firstJump         \* history: the first control transfer of the run

vars == <<phase, fileCount, fileName, lineNumber, processedLines, errors,
          sys_init, comparisonCount, callCount, functionName, hackCommands,
          lineIndex, output, written, rom, pc, A, D, ram, ram0, entry,
          exited, frames, returned, firstJump>>

translatorVars == <<phase, fileCount, fileName, lineNumber, processedLines,
                    errors, sys_init, comparisonCount, callCount,
                    functionName, hackCommands, lineIndex, output, written>>

machineVars == <<rom, pc, A, D, ram, ram0, entry, exited, frames, returned,
                 firstJump>>

---------------------------------------------------------------------------
(* Bounds of the model. *)

MaxLines == 3        \* lines read over all input files
MaxFiles == 2        \* input files
MaxNumeral == 300    \* largest decimal numeral the model reads or prints

---------------------------------------------------------------------------
(* Emitted lines. *)

At(s) == [t |-> "@", s |-> s, c |-> ""]
AtC(s, c) == [t |-> "@", s |-> s, c |-> c]
C(s) == [t |-> "C", s |-> s, c |-> ""]
Label(s) == [t |-> "L", s |-> s, c |-> ""]
LabelC(s, c) == [t |-> "L", s |-> s, c |-> c]
Comment(c) == [t |-> "//", s |-> "", c |-> c]
Empty == [t |-> "", s |-> "", c |-> ""]

(* str(n) and its inverse int(s); isdigit(s) on the numerals of the model. *)
str(n) == ToString(n)
DigitStrings == {str(n) : n \in 0..MaxNumeral}
IntTable == [s \in DigitStrings |-> CHOOSE n \in 0..MaxNumeral : str(n) = s]
isdigit(s) == s \in DigitStrings
int(s) == IntTable[s]
(* int() also accepts a sign; int("-1") is the one signed numeral used. *)
intParses(s) == isdigit(s) \/ s = "-1"
intOf(s) == IF s = "-1" THEN -1 ELSE int(s)

---------------------------------------------------------------------------
(* The lookup tables. *)

InitializeCommandTypeDictionary ==
    [w \in {"add", "sub", "neg", "eq", "gt", "lt", "and", "or", "not", "push",
            "pop", "label", "goto", "if-goto", "function", "call", "return"} |->
        CASE w \in {"add", "sub", "neg", "and", "or", "not"} -> "Arithmetic"
          [] w \in {"eq", "gt", "lt"} -> "Comparison"
          [] w = "push" -> "Push"
          [] w = "pop" -> "Pop"
          [] w = "label" -> "Label"
          [] w = "goto" -> "Goto"
          [] w = "if-goto" -> "IfGoto"
          [] w = "function" -> "Function"
          [] w = "call" -> "Call"
          [] w = "return" -> "Return"]

InitializeArithmeticTypeDictionary ==
    [w \in {"add", "sub", "neg", "and", "or", "not"} |->
        CASE w = "add" -> "Add" [] w = "sub" -> "Sub" [] w = "neg" -> "Neg"
          [] w = "and" -> "And" [] w = "or" -> "Or" [] w = "not" -> "Not"]

InitializeComparisonTypeDictionary ==
    [w \in {"eq", "gt", "lt"} |->
        CASE w = "eq" -> "EQ" [] w = "gt" -> "GT" [] w = "lt" -> "LT"]

InitializeMemorySegmentDictionary ==
    [w \in {"local", "argument", "this", "that", "static", "constant",
            "pointer", "temp"} |->
        CASE w = "local" -> "LCL" [] w = "argument" -> "ARG"
          [] w = "this" -> "THIS" [] w = "that" -> "THAT"
          [] w = "static" -> "Static" [] w = "constant" -> "Constant"
          [] w = "pointer" -> "Pointer" [] w = "temp" -> "Temp"]

(* MemorySegment.value *)
MemorySegmentValue ==
    [s \in {"LCL", "ARG", "THIS", "THAT", "Static", "Constant", "Pointer",
            "Temp", "Invalid"} |->
        CASE s = "LCL" -> 1 [] s = "ARG" -> 2 [] s = "THIS" -> 3
          [] s = "THAT" -> 4 [] s = "Static" -> 5 [] s = "Constant" -> 6
          [] s = "Pointer" -> 7 [] s = "Temp" -> 8 [] s = "Invalid" -> 9]

(* dict.get(key, default) *)
Get(dict, key, default) == IF key \in DOMAIN dict THEN dict[key] ELSE default

---------------------------------------------------------------------------
(* The code generators.  A parsed line is the tuple the parser builds; its *)
(* Python element line[i] is line[i + 1] here.                             *)

(* PushAddress pushing the address of the register, not what it holds. *)
PushAddress_OfRegister(registerName) ==
    << At(registerName), C("D=A"), At("SP"), C("M=M+1"), C("A=M-1"), C("M=D") >>

PushAddress(registerName) ==
    << At(registerName), C("D=M"), At("SP"), C("M=M+1"), C("A=M-1"), C("M=D") >>

GenerateFunctionCallCode(fName, argumentCount, returnLabel) ==
    LET comment == "//Call function " \o fName \o " with  "
                   \o str(argumentCount) \o " arguments"
    IN  << Comment(comment),
           At(returnLabel), C("D=A"),
           At("SP"), C("M=M+1"), C("A=M-1"), C("M=D") >>
        \o PushAddress("LCL")
        \o PushAddress("ARG")
        \o PushAddress("THIS")
        \o PushAddress("THAT")
        \o << At("SP"), C("D=M"), At("5"), C("D=D-A"),
              At(str(argumentCount)), C("D=D-A"), At("ARG"), C("M=D"),
              At("SP"), C("D=M"), At("LCL"), C("M=D"),
              At(fName), C("0;JMP"),
              LabelC(returnLabel, comment) >>

(* GenerateBootStrapCode that calls Sys.init before it sets SP. *)
GenerateBootStrapCode_CallFirst ==
    LET sysInitCall == GenerateFunctionCallCode("Sys.init", 0, "Dummy")
    IN  SubSeq(sysInitCall, 1, Len(sysInitCall) - 1)
        \o << At("256"), C("D=A"), At("SP"), C("M=D") >>

GenerateBootStrapCode ==
    LET sysInitCall == GenerateFunctionCallCode("Sys.init", 0, "Dummy")
    IN  << At("256"), C("D=A"), At("SP"), C("M=D") >>
        \o SubSeq(sysInitCall, 1, Len(sysInitCall) - 1)

(* GenerateArithmeticCode whose binary commands leave the stack pointer. *)
GenerateArithmeticCode_NoDecrement(line) ==
    LET aType == line[2]
    IN  << Comment("//Stack " \o aType), At("SP") >>
        \o IF aType = "Neg" \/ aType = "Not"
           THEN << C("A=M-1"), IF aType = "Neg" THEN C("M=-M") ELSE C("M=!M") >>
           ELSE << C("A=M-1"), C("D=M"), C("A=A-1"),
                   CASE aType = "Add" -> C("M=D+M")
                     [] aType = "Sub" -> C("M=M-D")
                     [] aType = "And" -> C("M=D&M")
                     [] OTHER -> C("M=D|M") >>

GenerateArithmeticCode(line) ==
    LET aType == line[2]
    IN  << Comment("//Stack " \o aType), At("SP") >>
        \o IF aType = "Neg" \/ aType = "Not"
           THEN << C("A=M-1"), IF aType = "Neg" THEN C("M=-M") ELSE C("M=!M") >>
           ELSE << C("M=M-1"), C("A=M"), C("D=M"), C("A=A-1"),
                   CASE aType = "Add" -> C("M=D+M")
                     [] aType = "Sub" -> C("M=M-D")
                     [] aType = "And" -> C("M=D&M")
                     [] OTHER -> C("M=D|M") >>

(* GenerateComparisonCode with the counter left out of the label. *)
GenerateComparisonCode_NoCount(line, count) ==
    LET cType == line[2]
        compareLabel == "COMPARE:"
    IN  << Comment("//Stack Compare " \o cType),
           At("SP"), C("M=M-1"), C("A=M"), C("D=M"), C("A=A-1"), C("D=M-D"),
           C("M=-1"),
           At(compareLabel) >>
        \o (CASE cType = "EQ" -> << C("D;JEQ") >>
              [] cType = "GT" -> << C("D;JGT") >>
              [] cType = "LT" -> << C("D;JLT") >>
              [] OTHER -> << >>)
        \o << At("SP"), C("A=M-1"), C("M=0"), Label(compareLabel) >>

GenerateComparisonCode(line, count) ==
    LET cType == line[2]
        compareLabel == "COMPARE:" \o str(count)
    IN  << Comment("//Stack Compare " \o cType),
           At("SP"), C("M=M-1"), C("A=M"), C("D=M"), C("A=A-1"), C("D=M-D"),
           C("M=-1"),
           At(compareLabel) >>
        \o (CASE cType = "EQ" -> << C("D;JEQ") >>
              [] cType = "GT" -> << C("D;JGT") >>
              [] cType = "LT" -> << C("D;JLT") >>
              [] OTHER -> << >>)
        \o << At("SP"), C("A=M-1"), C("M=0"), Label(compareLabel) >>

(* GeneratePushCode that stores the value but leaves SP as it was. *)
GeneratePushCode_NoIncrement(line) ==
    LET sType == line[2]
        index == line[3]
    IN  << Comment("//Push " \o sType \o " " \o index) >>
        \o (CASE sType = "Constant" -> << At(index), C("D=A") >>
              [] MemorySegmentValue[sType] < 5 ->
                    << At(index), C("D=A"), At(sType), C("A=D+M"), C("D=M") >>
              [] sType = "Pointer" -> << At("R" \o str(int(index) + 3)), C("D=M") >>
              [] sType = "Temp" -> << At("R" \o str(int(index) + 5)), C("D=M") >>
              [] sType = "Static" -> << At(line[4] \o "." \o index), C("D=M") >>
              [] OTHER -> << >>)
        \o << At("SP"), C("A=M"), C("M=D") >>

GeneratePushCode(line) ==
    LET sType == line[2]
        index == line[3]
    IN  << Comment("//Push " \o sType \o " " \o index) >>
        \o (CASE sType = "Constant" -> << At(index), C("D=A") >>
              [] MemorySegmentValue[sType] < 5 ->
                    << At(index), C("D=A"), At(sType), C("A=D+M"), C("D=M") >>
              [] sType = "Pointer" -> << At("R" \o str(int(index) + 3)), C("D=M") >>
              [] sType = "Temp" -> << At("R" \o str(int(index) + 5)), C("D=M") >>
              [] sType = "Static" -> << At(line[4] \o "." \o index), C("D=M") >>
              [] OTHER -> << >>)
        \o << At("SP"), C("M=M+1"), C("A=M-1"), C("M=D") >>

(* GeneratePopCode that keeps the destination address in D, not in R13,   *)
(* while it fetches the value.                                            *)
GeneratePopCode_NoScratch(line) ==
    LET sType == line[2]
        index == line[3]
    IN  << Comment("//Pop " \o sType \o " " \o index) >>
        \o (CASE MemorySegmentValue[sType] < 5 ->
                    << At(index), C("D=A"), At(sType), C("A=D+M") >>
              [] sType = "Pointer" -> << At("R" \o str(int(index) + 3)) >>
              [] sType = "Temp" -> << At("R" \o str(int(index) + 5)) >>
              [] sType = "Static" -> << At(line[4] \o "." \o index) >>
              [] OTHER -> << >>)
        \o << C("D=A"),
              At("SP"), C("M=M-1"), C("A=M"), C("A=M"), C("M=D") >>

GeneratePopCode(line) ==
    LET sType == line[2]
        index == line[3]
    IN  << Comment("//Pop " \o sType \o " " \o index) >>
        \o (CASE MemorySegmentValue[sType] < 5 ->
                    << At(index), C("D=A"), At(sType), C("A=D+M") >>
              [] sType = "Pointer" -> << At("R" \o str(int(index) + 3)) >>
              [] sType = "Temp" -> << At("R" \o str(int(index) + 5)) >>
              [] sType = "Static" -> << At(line[4] \o "." \o index) >>
              [] OTHER -> << >>)
        \o << C("D=A"), At("R13"), C("M=D"),
              At("SP"), C("M=M-1"), C("A=M"), C("D=M"),
              At("R13"), C("A=M"), C("M=D") >>

(* The loop of GenerateFunctionDefinitionCode run one time too few. *)
ZeroLocals_OneShort(localVarCount) ==
    [i \in 1..(2 * (localVarCount - 1)) |->
        IF i % 2 = 1 THEN C("M=0") ELSE C("A=A+1")]

ZeroLocals(localVarCount) ==
    [i \in 1..(2 * localVarCount) |-> IF i % 2 = 1 THEN C("M=0") ELSE C("A=A+1")]

GenerateFunctionDefinitionCode(fName, localVarCount) ==
    LET comment == "//Function definition, " \o str(localVarCount)
                   \o " local variables"
    IN  << Empty, LabelC(fName, comment), At("SP"), C("A=M") >>
        \o ZeroLocals(IF localVarCount > 0 THEN localVarCount ELSE 0)
        \o << C("D=A"), At("SP"), C("M=D") >>

(* GenerateReturnCode that fetches the return address after it has moved   *)
(* the return value.                                                       *)
GenerateReturnCode_LateReturnAddress ==
    << Comment("//Return control to calling function"),
       At("SP"), C("A=M-1"), C("D=M"), At("ARG"), C("A=M"), C("M=D"),
       At("5"), C("D=A"), At("LCL"), C("A=M-D"), C("D=M"), At("R13"), C("M=D"),
       At("ARG"), C("D=M+1"), At("SP"), C("M=D"),
       At("LCL"), C("A=M-1"), C("D=M"), At("THAT"), C("M=D"),
       At("2"), C("D=A"), At("LCL"), C("A=M-D"), C("D=M"), At("THIS"), C("M=D"),
       At("3"), C("D=A"), At("LCL"), C("A=M-D"), C("D=M"), At("ARG"), C("M=D"),
       At("4"), C("D=A"), At("LCL"), C("A=M-D"), C("D=M"), At("LCL"), C("M=D"),
       At("R13"), C("A=M"), C("0;JMP") >>

GenerateReturnCode ==
    << Comment("//Return control to calling function"),
       At("5"), C("D=A"), At("LCL"), C("A=M-D"), C("D=M"), At("R13"), C("M=D"),
       At("SP"), C("A=M-1"), C("D=M"), At("ARG"), C("A=M"), C("M=D"),
       At("ARG"), C("D=M+1"), At("SP"), C("M=D"),
       At("LCL"), C("A=M-1"), C("D=M"), At("THAT"), C("M=D"),
       At("2"), C("D=A"), At("LCL"), C("A=M-D"), C("D=M"), At("THIS"), C("M=D"),
       At("3"), C("D=A"), At("LCL"), C("A=M-D"), C("D=M"), At("ARG"), C("M=D"),
       At("4"), C("D=A"), At("LCL"), C("A=M-D"), C("D=M"), At("LCL"), C("M=D"),
       At("R13"), C("A=M"), C("0;JMP") >>

---------------------------------------------------------------------------
(* The parser: the body of the loop over the lines of a file. *)

(* The lines the input files are made of, each already split into words;   *)
(* << >> is a line that is empty once its comment is stripped.             *)
LineUniverse ==
    { << >>,
      <<"add">>, <<"eq">>,
      <<"push", "temp", "8">>, <<"pop", "pointer", "2">>,
      <<"pop", "constant", "0">>, <<"push", "static", "1">>,
      <<"push", "local", "x">>,
      <<"label", "L">>, <<"goto", "L">>, <<"if-goto", "L">>,
      <<"function", "Sys.init", "0">>, <<"function", "f", "1">>,
      <<"function", "Sys.init", "x">>,
      <<"call", "g", "0">>, <<"return">>,
      <<"bogus">>, <<"add", "1">> }

FileNames == <<"Main", "Sys", "Lib", "Aux">>

(* The tuple the parser builds for a non-empty line; <<"ValueError">> when *)
(* int(words[2]) raises.                                                   *)
ProcessLine(words, lineNo, file) ==
    LET cType == Get(InitializeCommandTypeDictionary, words[1], "Invalid")
    IN  CASE cType = "Arithmetic" /\ Len(words) = 1 ->
                <<cType, InitializeArithmeticTypeDictionary[words[1]]>>
          [] cType = "Comparison" /\ Len(words) = 1 ->
                <<cType, InitializeComparisonTypeDictionary[words[1]]>>
          [] Len(words) = 3 /\ (cType = "Push" \/ cType = "Pop") ->
                LET segment == Get(InitializeMemorySegmentDictionary, words[2],
                                   "Invalid")
                IN  IF segment = "Invalid" \/ ~isdigit(words[3])
                    THEN <<"Invalid", lineNo>>
                    ELSE <<cType, segment, words[3], file>>
          [] Len(words) = 2 /\ (cType = "Label" \/ cType = "Goto"
                                \/ cType = "IfGoto") ->
                <<cType, words[2]>>
          [] cType = "Function" /\ Len(words) = 3 ->
                IF intParses(words[3]) THEN <<cType, words[2], intOf(words[3])>>
                ELSE <<"ValueError">>
          [] cType = "Call" /\ Len(words) = 3 ->
                IF intParses(words[3]) THEN <<cType, words[2], intOf(words[3])>>
                ELSE <<"ValueError">>
          [] cType = "Return" /\ Len(words) = 1 -> <<cType, 0>>
          [] OTHER -> <<"Invalid", lineNo>>

(* sys_init after the line: set before int(words[2]) is evaluated. *)
FoundSysInit(words) ==
    /\ Len(words) = 3
    /\ Get(InitializeCommandTypeDictionary, words[1], "Invalid") = "Function"
    /\ words[2] = "Sys.init"

---------------------------------------------------------------------------
(* The translation of one parsed line: the body of the translation loop.   *)
(* The result holds the translation and the generator context after it.    *)

LabelTranslation(fName, name) ==
    << Empty, Label(fName \o "$" \o name), Empty >>

GotoTranslation(fName, name) ==
    << AtC(fName \o "$" \o name, "//Goto label " \o fName \o "$" \o name),
       C("0;JMP") >>

(* The IfGoto translation jumping on a positive value only. *)
IfGotoTranslation_Positive(fName, name) ==
    << Comment("//If-Goto label " \o fName \o "$" \o name),
       At("SP"), C("M=M-1"), C("A=M"), C("D=M"),
       At(fName \o "$" \o name), C("D;JGT") >>

IfGotoTranslation(fName, name) ==
    << Comment("//If-Goto label " \o fName \o "$" \o name),
       At("SP"), C("M=M-1"), C("A=M"), C("D=M"),
       At(fName \o "$" \o name), C("D;JNE") >>

TranslateLine(line, fName, compCount, cCount) ==
    LET cType == line[1]
        same(translation) ==
            [translation |-> translation, functionName |-> fName,
             comparisonCount |-> compCount, callCount |-> cCount]
    IN  CASE cType = "Push" -> same(GeneratePushCode(line))
          [] cType = "Pop" -> same(GeneratePopCode(line))
          [] cType = "Arithmetic" -> same(GenerateArithmeticCode(line))
          [] cType = "Comparison" ->
                [translation |-> GenerateComparisonCode(line, compCount + 1),
                 functionName |-> fName,
                 comparisonCount |-> compCount + 1, callCount |-> cCount]
          [] cType = "Label" -> same(LabelTranslation(fName, line[2]))
          [] cType = "Goto" -> same(GotoTranslation(fName, line[2]))
          [] cType = "IfGoto" -> same(IfGotoTranslation(fName, line[2]))
          [] cType = "Call" ->
                [translation |->
                    GenerateFunctionCallCode(line[2], line[3],
                        line[2] \o ".RETURN" \o ":" \o str(cCount + 1)),
                 functionName |-> line[2],
                 comparisonCount |-> compCount, callCount |-> cCount + 1]
          [] cType = "Function" ->
                [translation |-> GenerateFunctionDefinitionCode(line[2], line[3]),
                 functionName |-> line[2],
                 comparisonCount |-> compCount, callCount |-> cCount]
          [] cType = "Return" -> same(GenerateReturnCode)
          [] OTHER -> same(<< >>)

---------------------------------------------------------------------------
(* The main program. *)

NoMachine ==
    /\ rom = << >> /\ pc = 0 /\ A = 0 /\ D = 0 /\ ram = << >> /\ ram0 = << >>
    /\ entry = << >> /\ exited = 0 /\ frames = << >> /\ returned = << >>
    /\ firstJump = << >>

Init ==
    /\ phase = "parse"
    /\ fileCount = 0
    /\ fileName = ""
    /\ lineNumber = 0
    /\ processedLines = << >>
    /\ errors = << >>
    /\ sys_init = FALSE
    /\ comparisonCount = 0
    /\ callCount = 0
    /\ functionName = ""
    /\ hackCommands = << >>
    /\ lineIndex = 0
    /\ output = << >>
    /\ written = FALSE
    /\ NoMachine

(* for filePath in filePaths: the next file is opened. *)
OpenFile ==
    /\ phase = "parse"
    /\ fileCount < MaxFiles
    /\ fileCount' = fileCount + 1
    /\ fileName' = FileNames[fileCount + 1]
    /\ UNCHANGED <<phase, lineNumber, processedLines, errors, sys_init,
                   comparisonCount, callCount, functionName, hackCommands,
                   lineIndex, output, written>>
    /\ UNCHANGED machineVars

(* for line in lines: one line of the open file is read and classified. *)
ParseLine ==
    /\ phase = "parse"
    /\ fileCount > 0
    /\ lineNumber < MaxLines
    /\ \E words \in LineUniverse :
        /\ lineNumber' = lineNumber + 1
        /\ IF Len(words) = 0
           THEN UNCHANGED <<phase, processedLines, errors, sys_init>>
           ELSE LET processedLine == ProcessLine(words, lineNumber + 1, fileName)
                IN  /\ sys_init' = (sys_init \/ FoundSysInit(words))
                    /\ CASE processedLine[1] = "ValueError" ->
                                /\ phase' = "crashed"
                                /\ UNCHANGED <<processedLines, errors>>
                         [] processedLine[1] = "Invalid" ->
                                /\ errors' = Append(errors, processedLine)
                                /\ UNCHANGED <<phase, processedLines>>
                         [] OTHER ->
                                /\ processedLines' = Append(processedLines, processedLine)
                                /\ UNCHANGED <<phase, errors>>
    /\ UNCHANGED <<fileCount, fileName, comparisonCount, callCount,
                   functionName, hackCommands, lineIndex, output, written>>
    /\ UNCHANGED machineVars

(* EndParse with the errors branch of the gate left out. *)
EndParse_IgnoreErrors ==
    /\ phase = "parse"
    /\ IF ~sys_init
       THEN /\ phase' = "done"
            /\ UNCHANGED <<hackCommands, functionName, lineIndex>>
       ELSE /\ hackCommands' = GenerateBootStrapCode
            /\ functionName' = "NONE"
            /\ lineIndex' = 1
            /\ phase' = "translate"
    /\ UNCHANGED <<fileCount, fileName, lineNumber, processedLines, errors,
                   sys_init, comparisonCount, callCount, output, written>>
    /\ UNCHANGED machineVars

(* The parse loops are over: the Sys.init / errors gate, and the start of  *)
(* the translation.                                                        *)
EndParse ==
    /\ phase = "parse"
    /\ IF ~sys_init \/ Len(errors) > 0
       THEN /\ phase' = "done"
            /\ UNCHANGED <<hackCommands, functionName, lineIndex>>
       ELSE /\ hackCommands' = GenerateBootStrapCode
            /\ functionName' = "NONE"
            /\ lineIndex' = 1
            /\ phase' = "translate"
    /\ UNCHANGED <<fileCount, fileName, lineNumber, processedLines, errors,
                   sys_init, comparisonCount, callCount, output, written>>
    /\ UNCHANGED machineVars

(* for line in processedLines: one line is translated and appended. *)
Translate ==
    /\ phase = "translate"
    /\ lineIndex <= Len(processedLines)
    /\ LET r == TranslateLine(processedLines[lineIndex], functionName,
                              comparisonCount, callCount)
       IN  /\ hackCommands' = hackCommands \o r.translation
           /\ functionName' = r.functionName
           /\ comparisonCount' = r.comparisonCount
           /\ callCount' = r.callCount
    /\ lineIndex' = lineIndex + 1
    /\ UNCHANGED <<phase, fileCount, fileName, lineNumber, processedLines,
                   errors, sys_init, output, written>>
    /\ UNCHANGED machineVars

(* The translation loop is over: the output file is opened and written. *)
WriteOutput ==
    /\ phase = "translate"
    /\ lineIndex > Len(processedLines)
    /\ written' = TRUE
    /\ output' = hackCommands
    /\ phase' = "done"
    /\ UNCHANGED <<fileCount, fileName, lineNumber, processedLines, errors,
                   sys_init, comparisonCount, callCount, functionName,
                   hackCommands, lineIndex>>
    /\ UNCHANGED machineVars

Next == OpenFile \/ ParseLine \/ EndParse \/ Translate \/ WriteOutput

Spec == Init /\ [][Next]_vars

---------------------------------------------------------------------------
(* The whole translation of a list of parsed lines: the bootstrap and the  *)
(* translation loop run to its end.  starts[k] is the number of lines      *)
(* emitted before the translation of lines[k].                             *)

RECURSIVE TranslateFrom(_, _, _)
TranslateFrom(lines, k, ctx) ==
    IF k > Len(lines) THEN ctx
    ELSE LET r == TranslateLine(lines[k], ctx.functionName,
                                ctx.comparisonCount, ctx.callCount)
         IN  TranslateFrom(lines, k + 1,
                [hackCommands |-> ctx.hackCommands \o r.translation,
                 functionName |-> r.functionName,
                 comparisonCount |-> r.comparisonCount,
                 callCount |-> r.callCount,
                 starts |-> Append(ctx.starts, Len(ctx.hackCommands))])

TranslateAll(lines) ==
    TranslateFrom(lines, 1,
        [hackCommands |-> GenerateBootStrapCode, functionName |-> "NONE",
         comparisonCount |-> 0, callCount |-> 0, starts |-> << >>])

---------------------------------------------------------------------------
(* Claims about the translator (specification Spec). *)

(* The lines translated so far. *)
Translated == IF phase \in {"translate", "done"} /\ lineIndex > 0
              THEN 1..(lineIndex - 1) ELSE {}

(* The name given by the most recent Function command before line k, or "" *)
(* when there is none.                                                      *)
RECURSIVE EnclosingFunction(_, _)
EnclosingFunction(lines, k) ==
    IF k = 0 THEN ""
    ELSE IF lines[k][1] = "Function" THEN lines[k][2]
    ELSE EnclosingFunction(lines, k - 1)

(* The symbol a Label, Goto or IfGoto translation names: in all three it   *)
(* is on the last line but one.                                            *)
EmittedSymbol == hackCommands[Len(hackCommands) - 1].s

JustTranslated(types) ==
    /\ phase = "translate"
    /\ lineIndex > 1
    /\ processedLines[lineIndex - 1][1] \in types

\* C1: every Label, Goto and IfGoto is emitted as <F>$<name>, F being the
\* name given by the most recent preceding Function command, also when Call
\* commands lie between that Function command and the Label/Goto/IfGoto.
C1_ScopedToEnclosingFunction ==
    (/\ JustTranslated({"Label", "Goto", "IfGoto"})
     /\ EnclosingFunction(processedLines, lineIndex - 1) # "")
    => EmittedSymbol = EnclosingFunction(processedLines, lineIndex - 1)
                       \o "$" \o processedLines[lineIndex - 1][2]

CompareLabels == {"COMPARE:" \o str(n) : n \in 0..MaxNumeral} \cup {"COMPARE:"}
IsCompareLabel(h) == h.t = "L" /\ h.s \in CompareLabels
IsReturnLabel(h) ==
    h.t = "L" /\ \E f \in {"Sys.init", "f", "g"}, n \in 0..(MaxLines + 1) :
                    h.s = f \o ".RETURN:" \o str(n)

Lines(type) == SelectSeq(SubSeq(processedLines, 1, lineIndex - 1),
                         LAMBDA l : l[1] = type)
Distinct(seq) == \A i, j \in DOMAIN seq : i # j => seq[i] # seq[j]

\* C4: the comparison counter and the call counter count the Comparison and
\* the Call commands translated so far (one step per command, never reset),
\* the n-th Comparison is given the label COMPARE:n, the n-th Call the label
\* <callee>.RETURN:n, and no two of these labels are the same.
C4_LabelsNeverRepeat ==
    Translated # {} =>
        LET compares == SelectSeq(hackCommands, IsCompareLabel)
            returns == SelectSeq(hackCommands, IsReturnLabel)
            calls == Lines("Call")
        IN  /\ comparisonCount = Len(Lines("Comparison"))
            /\ callCount = Len(calls)
            /\ Len(compares) = comparisonCount
            /\ Len(returns) = callCount
            /\ \A n \in DOMAIN compares : compares[n].s = "COMPARE:" \o str(n)
            /\ \A n \in DOMAIN returns :
                    returns[n].s = calls[n][2] \o ".RETURN:" \o str(n)
            /\ Distinct(compares)
            /\ Distinct(returns)

C4_Witness ==
    /\ written
    /\ fileCount = 2
    /\ comparisonCount = 2 \/ callCount = 2

\* C5: no Push or Pop whose Pointer index is outside {0, 1} or whose Temp
\* index is outside 0..7 is accepted by the parser: it is recorded as an
\* error and never reaches the code generator.
C5_OutOfRangeRejected ==
    \A k \in DOMAIN processedLines :
        LET line == processedLines[k]
        IN  line[1] \in {"Push", "Pop"} =>
                /\ line[2] = "Pointer" => int(line[3]) \in {0, 1}
                /\ line[2] = "Temp" => int(line[3]) \in 0..7

\* C6: the output file is written only when a function Sys.init was parsed
\* and no line was Invalid, and it then holds the bootstrap followed by the
\* translation of every parsed command; in every other run nothing is
\* generated and nothing is written.
C6_AllOrNothing ==
    /\ written =>
        /\ \E k \in DOMAIN processedLines :
                processedLines[k][1] = "Function" /\ processedLines[k][2] = "Sys.init"
        /\ Len(errors) = 0
        /\ output = TranslateAll(processedLines).hackCommands
    /\ (phase \in {"done", "crashed"} /\ (~sys_init \/ Len(errors) > 0 \/ phase = "crashed")) =>
        /\ ~written
        /\ output = << >>
        /\ hackCommands = << >>
    /\ (Len(hackCommands) > 0) => (sys_init /\ Len(errors) = 0)

C6_Witness ==
    /\ written
    /\ Len(processedLines) = MaxLines
    /\ Len(output) > Len(GenerateBootStrapCode)

---------------------------------------------------------------------------
(* The Hack assembler: what the emitted lines mean as a program.  Comment  *)
(* and empty lines are dropped; a label names the address of the next      *)
(* instruction; a symbol that is no numeral, no predefined symbol and no   *)
(* label is a variable, allocated from address 16 in order of appearance.  *)

Predefined ==
    [s \in {"SP", "LCL", "ARG", "THIS", "THAT", "SCREEN", "KBD"}
           \cup {"R" \o str(n) : n \in 0..15} |->
        CASE s = "SP" -> 0 [] s = "LCL" -> 1 [] s = "ARG" -> 2
          [] s = "THIS" -> 3 [] s = "THAT" -> 4
          [] s = "SCREEN" -> 16384 [] s = "KBD" -> 24576
          [] OTHER -> CHOOSE n \in 0..15 : s = "R" \o str(n)]

IsInstruction(h) == h.t \in {"@", "C"}

(* The number of instructions among the first i emitted lines. *)
Address(cmds, i) == Cardinality({j \in 1..i : IsInstruction(cmds[j])})

LabelNames(cmds) == {cmds[i].s : i \in {j \in DOMAIN cmds : cmds[j].t = "L"}}

LabelAddress(cmds, name) ==
    Address(cmds, CHOOSE i \in DOMAIN cmds :
                    /\ cmds[i].t = "L" /\ cmds[i].s = name
                    /\ \A j \in 1..(i - 1) : ~(cmds[j].t = "L" /\ cmds[j].s = name))

IsVariable(cmds, h) ==
    /\ h.t = "@"
    /\ ~isdigit(h.s)
    /\ h.s \notin DOMAIN Predefined
    /\ h.s \notin LabelNames(cmds)

(* The first line that names the variable of line i. *)
FirstUse(cmds, i) == CHOOSE j \in 1..i :
    /\ cmds[j].t = "@" /\ cmds[j].s = cmds[i].s
    /\ \A m \in 1..(j - 1) : ~(cmds[m].t = "@" /\ cmds[m].s = cmds[i].s)

VariableAddress(cmds, i) ==
    16 + Cardinality({j \in 1..(FirstUse(cmds, i) - 1) :
                        IsVariable(cmds, cmds[j]) /\ FirstUse(cmds, j) = j})

Resolve(cmds, i) ==
    LET h == cmds[i]
    IN  CASE isdigit(h.s) -> int(h.s)
          [] h.s \in DOMAIN Predefined -> Predefined[h.s]
          [] h.s \in LabelNames(cmds) -> LabelAddress(cmds, h.s)
          [] OTHER -> VariableAddress(cmds, i)

(* The program of a translation: each instruction with the value of its    *)
(* symbol and the index of the parsed line it was emitted for (0 for the   *)
(* bootstrap).                                                             *)
Assemble(translation) ==
    LET cmds == translation.hackCommands
        kept == SelectSeq([i \in DOMAIN cmds |-> i],
                          LAMBDA i : IsInstruction(cmds[i]))
    IN  [a \in DOMAIN kept |->
            LET i == kept[a]
            IN  [t |-> cmds[i].t, s |-> cmds[i].s,
                 n |-> IF cmds[i].t = "@" THEN Resolve(cmds, i) ELSE 0,
                 cmd |-> Cardinality({k \in DOMAIN translation.starts :
                                        translation.starts[k] < i})]]

---------------------------------------------------------------------------
(* The Hack machine: 16-bit words, A and D registers, data memory          *)
(* addressed by the low 15 bits of A.  ram holds the cells that were set   *)
(* or written; every other cell reads 0.                                   *)

WordBits == 16
Word == 2 ^ WordBits
AddressSpace == 2 ^ 15
Wrap(x) == x % Word
Signed(x) == IF x >= Word \div 2 THEN x - Word ELSE x

RECURSIVE AndBits(_, _, _)
AndBits(x, y, bits) ==
    IF bits = 0 THEN 0
    ELSE 2 * AndBits(x \div 2, y \div 2, bits - 1) + (x % 2) * (y % 2)
RECURSIVE OrBits(_, _, _)
OrBits(x, y, bits) ==
    IF bits = 0 THEN 0
    ELSE 2 * OrBits(x \div 2, y \div 2, bits - 1)
         + (IF x % 2 = 1 \/ y % 2 = 1 THEN 1 ELSE 0)
And16(x, y) == AndBits(x, y, WordBits)
Or16(x, y) == OrBits(x, y, WordBits)
Not16(x) == Word - 1 - x

Read(mem, a) == IF a \in DOMAIN mem THEN mem[a] ELSE 0
Write(mem, a, v) == [x \in DOMAIN mem \cup {a} |-> IF x = a THEN v ELSE mem[x]]

(* dest=comp;jump of the C-instructions the generators emit. *)
Decode(s) ==
    CASE s = "D=A" -> [dest |-> {"D"}, comp |-> "A", jump |-> ""]
      [] s = "M=D" -> [dest |-> {"M"}, comp |-> "D", jump |-> ""]
      [] s = "A=M" -> [dest |-> {"A"}, comp |-> "M", jump |-> ""]
      [] s = "D=M" -> [dest |-> {"D"}, comp |-> "M", jump |-> ""]
      [] s = "A=M-1" -> [dest |-> {"A"}, comp |-> "M-1", jump |-> ""]
      [] s = "M=M-1" -> [dest |-> {"M"}, comp |-> "M-1", jump |-> ""]
      [] s = "M=M+1" -> [dest |-> {"M"}, comp |-> "M+1", jump |-> ""]
      [] s = "D=M+1" -> [dest |-> {"D"}, comp |-> "M+1", jump |-> ""]
      [] s = "A=A-1" -> [dest |-> {"A"}, comp |-> "A-1", jump |-> ""]
      [] s = "A=A+1" -> [dest |-> {"A"}, comp |-> "A+1", jump |-> ""]
      [] s = "M=-M" -> [dest |-> {"M"}, comp |-> "-M", jump |-> ""]
      [] s = "M=!M" -> [dest |-> {"M"}, comp |-> "!M", jump |-> ""]
      [] s = "M=D+M" -> [dest |-> {"M"}, comp |-> "D+M", jump |-> ""]
      [] s = "A=D+M" -> [dest |-> {"A"}, comp |-> "D+M", jump |-> ""]
      [] s = "M=M-D" -> [dest |-> {"M"}, comp |-> "M-D", jump |-> ""]
      [] s = "D=M-D" -> [dest |-> {"D"}, comp |-> "M-D", jump |-> ""]
      [] s = "A=M-D" -> [dest |-> {"A"}, comp |-> "M-D", jump |-> ""]
      [] s = "D=D-A" -> [dest |-> {"D"}, comp |-> "D-A", jump |-> ""]
      [] s = "M=D&M" -> [dest |-> {"M"}, comp |-> "D&M", jump |-> ""]
      [] s = "M=D|M" -> [dest |-> {"M"}, comp |-> "D|M", jump |-> ""]
      [] s = "M=-1" -> [dest |-> {"M"}, comp |-> "-1", jump |-> ""]
      [] s = "M=0" -> [dest |-> {"M"}, comp |-> "0", jump |-> ""]
      [] s = "0;JMP" -> [dest |-> {}, comp |-> "0", jump |-> "JMP"]
      [] s = "D;JEQ" -> [dest |-> {}, comp |-> "D", jump |-> "JEQ"]
      [] s = "D;JGT" -> [dest |-> {}, comp |-> "D", jump |-> "JGT"]
      [] s = "D;JLT" -> [dest |-> {}, comp |-> "D", jump |-> "JLT"]
      [] s = "D;JNE" -> [dest |-> {}, comp |-> "D", jump |-> "JNE"]

ALU(comp, a, d, m) ==
    CASE comp = "0" -> 0
      [] comp = "-1" -> Word - 1
      [] comp = "A" -> a
      [] comp = "D" -> d
      [] comp = "M" -> m
      [] comp = "M-1" -> Wrap(m - 1)
      [] comp = "M+1" -> Wrap(m + 1)
      [] comp = "A-1" -> Wrap(a - 1)
      [] comp = "A+1" -> Wrap(a + 1)
      [] comp = "-M" -> Wrap(0 - m)
      [] comp = "!M" -> Not16(m)
      [] comp = "D+M" -> Wrap(d + m)
      [] comp = "M-D" -> Wrap(m - d)
      [] comp = "D-A" -> Wrap(d - a)
      [] comp = "D&M" -> And16(d, m)
      [] comp = "D|M" -> Or16(d, m)

Jumps(jump, out) ==
    CASE jump = "" -> FALSE
      [] jump = "JMP" -> TRUE
      [] jump = "JEQ" -> out = 0
      [] jump = "JNE" -> out # 0
      [] jump = "JGT" -> Signed(out) > 0
      [] jump = "JLT" -> Signed(out) < 0

(* The registers, memory and program counter after the instruction i at   *)
(* address at, and whether it jumped.                                      *)
Execute(i, a, d, mem, at) ==
    IF i.t = "@"
    THEN [A |-> i.n, D |-> d, ram |-> mem, pc |-> at + 1, jumped |-> FALSE]
    ELSE LET c == Decode(i.s)
             addr == a % AddressSpace
             out == ALU(c.comp, a, d, Read(mem, addr))
         IN  [A |-> IF "A" \in c.dest THEN out ELSE a,
              D |-> IF "D" \in c.dest THEN out ELSE d,
              ram |-> IF "M" \in c.dest THEN Write(mem, addr, out) ELSE mem,
              pc |-> IF Jumps(c.jump, out) THEN a % AddressSpace ELSE at + 1,
              jumped |-> Jumps(c.jump, out)]

SP == 0
LCL == 1
ARG == 2
THIS == 3
THAT == 4
R13 == 13

CommandOf(at) == IF at < Len(rom) THEN rom[at + 1].cmd ELSE -1
TypeOf(k) == IF k \in DOMAIN processedLines THEN processedLines[k][1] ELSE "Bootstrap"
IsFirstOf(at) == at = 0 \/ CommandOf(at - 1) # CommandOf(at)
(* The address that follows the code of the command the instruction at is in. *)
EndOf(at) == CHOOSE e \in (at + 1)..Len(rom) :
    /\ \A x \in at..(e - 1) : CommandOf(x) = CommandOf(at)
    /\ CommandOf(e) # CommandOf(at)

(* One instruction is fetched and executed.  The history variables record  *)
(* the memory a command's code is entered with, the frame a Call is        *)
(* entered with, the value a Return starts with, the command whose code    *)
(* the program counter has just left, and the first jump taken.            *)
Step ==
    /\ phase = "run"
    /\ pc < Len(rom)
    /\ LET i == rom[pc + 1]
           k == i.cmd
           r == Execute(i, A, D, ram, pc)
           leaves == r.jumped \/ r.pc >= Len(rom) \/ CommandOf(r.pc) # k
           entered ==
              IF IsFirstOf(pc) /\ TypeOf(k) = "Call"
              THEN <<[sp |-> Read(ram, SP), lcl |-> Read(ram, LCL),
                      arg |-> Read(ram, ARG), this |-> Read(ram, THIS),
                      that |-> Read(ram, THAT), n |-> processedLines[k][3],
                      ret |-> EndOf(pc), value |-> 0]>> \o frames
              ELSE IF IsFirstOf(pc) /\ TypeOf(k) = "Return" /\ Len(frames) > 0
              THEN <<[frames[1] EXCEPT !.value = Read(ram, Wrap(Read(ram, SP) - 1))]>>
                   \o Tail(frames)
              ELSE frames
           returns == leaves /\ TypeOf(k) = "Return" /\ Len(entered) > 0
       IN  /\ A' = r.A
           /\ D' = r.D
           /\ ram' = r.ram
           /\ pc' = r.pc
           /\ entry' = IF IsFirstOf(pc) THEN ram ELSE entry
           /\ exited' = IF leaves THEN k ELSE 0
           /\ frames' = IF returns THEN Tail(entered) ELSE entered
           /\ returned' = IF returns THEN <<entered[1]>> ELSE << >>
           /\ firstJump' = IF r.jumped /\ firstJump = << >>
                           THEN <<[from |-> pc, to |-> r.pc]>>
                           ELSE firstJump
    /\ UNCHANGED <<rom, ram0>>
    /\ UNCHANGED translatorVars

(* A list of parsed lines with its translation and the assembled program. *)
Program(lines) ==
    LET translation == TranslateAll(lines)
    IN  [lines |-> lines, translation |-> translation,
         rom |-> Assemble(translation)]

(* The state of a machine loaded with the translation of program, about to *)
(* execute the code of its line start (the bootstrap when start is 0), the *)
(* data memory holding mem.                                                *)
Loaded(program, start, mem) ==
    /\ phase = "run"
    /\ fileCount = 1
    /\ fileName = "Main"
    /\ lineNumber = Len(program.lines)
    /\ processedLines = program.lines
    /\ errors = << >>
    /\ sys_init = TRUE
    /\ comparisonCount = program.translation.comparisonCount
    /\ callCount = program.translation.callCount
    /\ functionName = program.translation.functionName
    /\ hackCommands = program.translation.hackCommands
    /\ lineIndex = Len(program.lines) + 1
    /\ output = program.translation.hackCommands
    /\ written = TRUE
    /\ rom = program.rom
    /\ pc = CHOOSE at \in 0..(Len(program.rom) - 1) :
                program.rom[at + 1].cmd = start
                /\ \A x \in 0..(at - 1) : program.rom[x + 1].cmd # start
    /\ \E junk \in {0, Word - 1} : A = junk /\ D = junk
    /\ ram = mem
    /\ ram0 = mem
    /\ entry = mem
    /\ exited = 0
    /\ frames = << >>
    /\ returned = << >>
    /\ firstJump = << >>

(* A function with the given entries, in the order given. *)
Memory(cells) ==
    [a \in {cells[i][1] : i \in DOMAIN cells} |->
        cells[CHOOSE i \in DOMAIN cells :
                /\ cells[i][1] = a
                /\ \A j \in (i + 1)..Len(cells) : cells[j][1] # a][2]]

---------------------------------------------------------------------------
(* Running one Arithmetic or one Comparison command: the machine starts at *)
(* the first instruction of the command's code with a (next-to-top) and b  *)
(* (top) on the stack.                                                     *)

SysInit == <<"Function", "Sys.init", 0>>

(* Operand values: the boundary values of signed 16-bit arithmetic and two *)
(* mixed bit patterns.                                                     *)
Operands == {0, 1, Word - 1, Word \div 2, Word \div 2 - 1, 21845, 13107}

(* Values of the stack pointer at a command boundary; bootstrap sets 256.  *)
StackBase == 256
StackPointers == {StackBase + 2, StackBase + 44}

(* Memory with the stack pointer at sp, a and b on top of the stack, and   *)
(* recognisable values in the cells around them and in the registers.      *)
StackMemory(sp, a, b) ==
    Memory(<< <<LCL, 300>>, <<ARG, 290>>, <<THIS, 3000>>, <<THAT, 4000>>,
              <<R13, 1313>>, <<R13 + 1, 1414>>, <<R13 + 2, 1515>>,
              <<sp - 3, 333>>, <<sp, 444>>, <<sp + 1, 555>>,
              <<sp - 2, a>>, <<sp - 1, b>>, <<SP, sp>> >>)

ArithmeticPrograms ==
    [op \in {"Add", "Sub", "Neg", "And", "Or", "Not"} |->
        Program(<< SysInit, <<"Arithmetic", op>> >>)]

ComparisonPrograms ==
    [op \in {"EQ", "GT", "LT"} |-> Program(<< SysInit, <<"Comparison", op>> >>)]

InitArithmetic ==
    \E op \in DOMAIN ArithmeticPrograms, a, b \in Operands, sp \in StackPointers :
        Loaded(ArithmeticPrograms[op], 2, StackMemory(sp, a, b))

InitComparison ==
    \E op \in DOMAIN ComparisonPrograms, a, b \in Operands, sp \in StackPointers :
        Loaded(ComparisonPrograms[op], 2, StackMemory(sp, a, b))

NextRun == Step

SpecArithmetic == InitArithmetic /\ [][NextRun]_vars
SpecComparison == InitComparison /\ [][NextRun]_vars

(* The cells, other than those of the set except, whose value is not what  *)
(* it was when the machine started.                                        *)
ChangedSince(mem, except) ==
    {a \in (DOMAIN ram \cup DOMAIN mem) \ except : Read(ram, a) # Read(mem, a)}
Changed(except) == ChangedSince(ram0, except)

Bit(x, i) == (x \div (2 ^ i)) % 2

\* C9: for 16-bit a (next-to-top) and b (top), Add, Sub, And and Or leave
\* a+b, a-b, a AND b, a OR b (modulo 2^16) in the cell of a with SP one less;
\* Neg and Not replace b in place by -b and NOT b with SP unchanged; no cell
\* other than the result cell and SP is written.
C9_ArithmeticResult ==
    (exited = 2 /\ TypeOf(2) = "Arithmetic") =>
        LET sp == ram0[SP]
            a == ram0[sp - 2]
            b == ram0[sp - 1]
            op == processedLines[2][2]
            unary == op \in {"Neg", "Not"}
            cell == IF unary THEN sp - 1 ELSE sp - 2
            res == Read(ram, cell)
        IN  /\ Read(ram, SP) = IF unary THEN sp ELSE sp - 1
            /\ res \in 0..(Word - 1)
            /\ CASE op = "Add" -> (res - (a + b)) % Word = 0
                 [] op = "Sub" -> (res - (a - b)) % Word = 0
                 [] op = "Neg" -> (res + b) % Word = 0
                 [] op = "And" -> \A i \in 0..(WordBits - 1) :
                                    Bit(res, i) = 1 <=> (Bit(a, i) = 1 /\ Bit(b, i) = 1)
                 [] op = "Or" -> \A i \in 0..(WordBits - 1) :
                                    Bit(res, i) = 1 <=> (Bit(a, i) = 1 \/ Bit(b, i) = 1)
                 [] op = "Not" -> \A i \in 0..(WordBits - 1) : Bit(res, i) # Bit(b, i)
            /\ Changed({SP, cell}) = {}

C9_Witness ==
    /\ exited = 2
    /\ TypeOf(2) = "Arithmetic"
    /\ processedLines[2][2] = "Sub"
    /\ ram0[ram0[SP] - 2] = 0
    /\ ram0[ram0[SP] - 1] = 1
    /\ Read(ram, ram0[SP] - 2) = Word - 1

\* C3: for a (next-to-top) and b (top) signed 16-bit values, EQ, GT and LT
\* leave -1 (all bits set) in the resulting top cell exactly when the
\* relation a op b holds of the two signed values, and 0 otherwise, with SP
\* decremented by exactly one.
C3_ComparisonResult ==
    (exited = 2 /\ TypeOf(2) = "Comparison") =>
        LET sp == ram0[SP]
            a == Signed(ram0[sp - 2])
            b == Signed(ram0[sp - 1])
            op == processedLines[2][2]
            holds == CASE op = "EQ" -> a = b
                       [] op = "GT" -> a > b
                       [] op = "LT" -> a < b
        IN  /\ Read(ram, SP) = sp - 1
            /\ Read(ram, sp - 2) = IF holds THEN Word - 1 ELSE 0

---------------------------------------------------------------------------
(* Running Push(S, i) and then Pop(S, i) for a base-register segment S:    *)
(* the machine starts at the first instruction of the Push.                *)

Segments == <<"LCL", "ARG", "THIS", "THAT">>
Indexes == {"0", "2"}

PushPopPrograms ==
    [x \in (DOMAIN Segments) \X Indexes |->
        Program(<< SysInit, <<"Push", Segments[x[1]], x[2], "Main">>,
                            <<"Pop", Segments[x[1]], x[2], "Main">> >>)]

(* The addresses base(S) + i is made to fall on: the SP register, the      *)
(* segment registers, the scratch register, the cells around the top of    *)
(* the stack, and cells far from all of these.                             *)
Targets(sp) == {SP, LCL, ARG, THIS, THAT, R13, sp - 1, sp, sp + 1, 2000,
                AddressSpace - 1}

InitPushPop ==
    \E x \in DOMAIN PushPopPrograms, sp \in StackPointers :
    \E t \in Targets(sp), high \in {0, AddressSpace}, v \in {0, 77, Word - 1} :
        Loaded(PushPopPrograms[x], 2,
               Memory(<< <<LCL, 300>>, <<ARG, 290>>, <<THIS, 3000>>,
                         <<THAT, 4000>>, <<R13, 1313>>, <<sp - 1, 111>>,
                         <<sp, 444>>, <<t, v>>,
                         <<Predefined[Segments[x[1]]],
                           Wrap(t - int(x[2]) + high)>>,
                         <<SP, sp>> >>))

SpecPushPop == InitPushPop /\ [][NextRun]_vars

(* The address a Push or Pop of line k resolves to in the memory mem. *)
ResolvedAddress(k, mem) ==
    LET line == processedLines[k]
    IN  Wrap(Read(mem, Predefined[line[2]]) + int(line[3])) % AddressSpace

\* C8: for S in {Local, Argument, This, That} and every index i, Push(S, i)
\* followed by Pop(S, i) leaves the cell at base(S) + i and SP with their
\* original values, for every value of the base register, also when
\* base(S) + i is the SP register, R13 or the top-of-stack cell.
C8_PushPopRoundTrip ==
    (exited = 3 /\ TypeOf(2) = "Push" /\ TypeOf(3) = "Pop") =>
        LET target == ResolvedAddress(2, ram0)
        IN  /\ Read(ram, target) = Read(ram0, target)
            /\ Read(ram, SP) = Read(ram0, SP)

C8_Witness ==
    /\ exited = 3
    /\ TypeOf(2) = "Push" /\ TypeOf(3) = "Pop"
    /\ ResolvedAddress(2, ram0) = R13
    /\ Read(ram0, R13) = 77
    /\ Read(ram, R13) = 77

---------------------------------------------------------------------------
(* Running IfGoto: the machine starts at the first instruction of the      *)
(* IfGoto whose label lies ahead of it, behind it, or ahead of it in a     *)
(* function that has made a call.                                          *)

IfGotoPrograms ==
    << [start |-> 2,
        program |-> Program(<< SysInit, <<"IfGoto", "L">>,
                               <<"Push", "Constant", "7", "Main">>,
                               <<"Label", "L">>, <<"Arithmetic", "Neg">> >>)],
       [start |-> 4,
        program |-> Program(<< SysInit, <<"Label", "L">>,
                               <<"Push", "Constant", "7", "Main">>,
                               <<"IfGoto", "L">>, <<"Arithmetic", "Neg">> >>)],
       [start |-> 3,
        program |-> Program(<< SysInit, <<"Call", "g", 0>>, <<"IfGoto", "L">>,
                               <<"Push", "Constant", "7", "Main">>,
                               <<"Label", "L">>, <<"Arithmetic", "Neg">> >>)] >>

InitIfGoto ==
    \E p \in DOMAIN IfGotoPrograms, a, b \in Operands, sp \in StackPointers :
        Loaded(IfGotoPrograms[p].program, IfGotoPrograms[p].start,
               StackMemory(sp, a, b))

SpecIfGoto == InitIfGoto /\ [][NextRun]_vars

(* The symbol an IfGoto translation jumps to: the A-instruction before its *)
(* D;JNE, the last line of the translation of line k.                      *)
IfGotoSymbol(k) ==
    LET next == IF k < Len(processedLines)
                THEN TranslateAll(processedLines).starts[k + 1]
                ELSE Len(hackCommands)
    IN  hackCommands[next - 1].s

---------------------------------------------------------------------------
(* Running whole programs from the bootstrap: a call and its return.       *)

MaxArgs == 2         \* arguments of the call under test
MaxLocals == 2       \* local variables of the called function
MaxDepth == 3        \* depth of the recursion under test

PushConstant(n) == <<"Push", "Constant", str(n), "Main">>
PopPointer(i) == <<"Pop", "Pointer", str(i), "Main">>
Forever == << <<"Label", "END">>, <<"Goto", "END">> >>

(* Sys.init pushes two values and n arguments and calls f; f has k locals  *)
(* and either returns at once or first sets THIS and THAT and pushes 42.   *)
CallProgram(n, k, works) ==
    Program(<< SysInit, PushConstant(11), PushConstant(12) >>
            \o [i \in 1..n |-> PushConstant(20 + i)]
            \o << <<"Call", "f", n>> >>
            \o Forever
            \o << <<"Function", "f", k>> >>
            \o (IF works
                THEN << PushConstant(5), PopPointer(0), PushConstant(6),
                        PopPointer(1), PushConstant(42) >>
                ELSE << >>)
            \o << <<"Return", 0>> >>)

CallPrograms ==
    [x \in (0..MaxArgs) \X {0, MaxLocals} \X BOOLEAN |->
        CallProgram(x[1], x[2], x[3])]

(* The registers before the bootstrap runs. *)
PowerOn(this, that) ==
    Memory(<< <<SP, 0>>, <<LCL, 100>>, <<ARG, 200>>, <<THIS, this>>,
              <<THAT, that>>, <<R13, 1313>> >>)

InitCall ==
    \E x \in DOMAIN CallPrograms, this \in {0, 3000}, that \in {4000, Word - 1} :
        Loaded(CallPrograms[x], 0, PowerOn(this, that))

SpecCall == InitCall /\ [][NextRun]_vars

\* C2: for every n >= 0 (n = 0 included, where ARG of the callee is the cell
\* of the saved return address), Call(f, n) followed by Return inside f
\* restores LCL, ARG, THIS and THAT to their pre-call values, leaves SP at
\* pre-call SP - n + 1, places the callee's top-of-stack value at the new
\* SP - 1 and transfers control to the return label after the call's jump.
C2_CallReturnRestores ==
    returned # << >> =>
        LET call == returned[1]
        IN  /\ Read(ram, LCL) = call.lcl
            /\ Read(ram, ARG) = call.arg
            /\ Read(ram, THIS) = call.this
            /\ Read(ram, THAT) = call.that
            /\ Read(ram, SP) = call.sp - call.n + 1
            /\ Read(ram, Read(ram, SP) - 1) = call.value
            /\ pc = call.ret

C2_Witness ==
    /\ returned # << >>
    /\ returned[1].n = 0
    /\ returned[1].value = 42
    /\ returned[1].this = 3000
    /\ Read(ram, THIS) = 3000
    /\ Read(ram, Read(ram, SP) - 1) = 42

---------------------------------------------------------------------------
(* Nested calls: a chain of three functions with different argument and    *)
(* local counts, and a function that calls itself d times.                 *)

ChainProgram ==
    Program(<< SysInit, PushConstant(1), PushConstant(2), <<"Call", "a", 2>> >>
            \o Forever
            \o << <<"Function", "a", 1>>, PushConstant(7), PopPointer(0),
                  <<"Call", "b", 0>>, <<"Return", 0>>,
                  <<"Function", "b", 2>>, PushConstant(9), PopPointer(1),
                  PushConstant(3), <<"Call", "c", 1>>, <<"Return", 0>>,
                  <<"Function", "c", 0>>, PushConstant(8), PopPointer(0),
                  PushConstant(99), <<"Return", 0>> >>)

RecursiveProgram(d) ==
    Program(<< SysInit, PushConstant(d), <<"Call", "f", 1>> >>
            \o Forever
            \o << <<"Function", "f", 1>>,
                  <<"Push", "ARG", "0", "Main">>, <<"IfGoto", "REC">>,
                  PushConstant(0), <<"Return", 0>>,
                  <<"Label", "REC">>,
                  <<"Push", "ARG", "0", "Main">>, <<"Pop", "Pointer", "1", "Main">>,
                  <<"Push", "ARG", "0", "Main">>, PushConstant(1),
                  <<"Arithmetic", "Sub">>, <<"Call", "f", 1>>,
                  <<"Return", 0>> >>)

NestPrograms ==
    [d \in 0..MaxDepth |-> IF d = 0 THEN ChainProgram ELSE RecursiveProgram(d)]

InitNest ==
    \E d \in DOMAIN NestPrograms, this \in {0, 3000}, that \in {4000, Word - 1} :
        Loaded(NestPrograms[d], 0, PowerOn(this, that))

SpecNest == InitNest /\ [][NextRun]_vars

(* The five cells a call saved are as the call wrote them. *)
FrameIntact(call) ==
    /\ Read(ram, call.sp) = call.ret
    /\ Read(ram, call.sp + 1) = call.lcl
    /\ Read(ram, call.sp + 2) = call.arg
    /\ Read(ram, call.sp + 3) = call.this
    /\ Read(ram, call.sp + 4) = call.that

\* C7: in a chain of nested calls (recursive ones included) every Return
\* resumes at the return label of the most recent call not yet returned
\* from, with LCL, ARG, THIS and THAT as they were at that call and SP at
\* that call's pre-call SP minus its argument count plus 1, and the frames
\* of the calls still pending are left intact below it.
C7_NestedUnwind ==
    returned # << >> =>
        LET call == returned[1]
        IN  /\ pc = call.ret
            /\ <<Read(ram, LCL), Read(ram, ARG), Read(ram, THIS), Read(ram, THAT)>>
                    = <<call.lcl, call.arg, call.this, call.that>>
            /\ Read(ram, SP) = call.sp - call.n + 1
            /\ \A j \in DOMAIN frames :
                    /\ FrameIntact(frames[j])
                    /\ frames[j].sp + 5 <= call.sp - call.n

C7_Witness ==
    /\ returned # << >>
    /\ Len(frames) = MaxDepth - 1
    /\ frames[1].ret = returned[1].ret
    /\ frames[1].sp < returned[1].sp

---------------------------------------------------------------------------
(* The start of a run: programs in which any commands precede and follow   *)
(* function Sys.init, run from address 0 up to the first jump taken.       *)

MaxBootLines == 2    \* commands around function Sys.init

BootCommands ==
    { PushConstant(7), <<"Function", "f", 1>>, <<"Call", "f", 0>>,
      <<"Goto", "L">>, <<"Return", 0>> }

BootSequences == UNION {[1..m -> BootCommands] : m \in 0..MaxBootLines}

BootLines ==
    {x[1] \o << SysInit >> \o x[2] :
        x \in {y \in BootSequences \X BootSequences :
                    Len(y[1]) + Len(y[2]) <= MaxBootLines}}

BootPrograms == [lines \in BootLines |-> Program(lines)]

InitBoot ==
    \E lines \in BootLines, this \in {0, 3000} :
        Loaded(BootPrograms[lines], 0, PowerOn(this, 4000))

NextBoot == firstJump = << >> /\ Step

SpecBoot == InitBoot /\ [][NextBoot]_vars

(* The number of instructions emitted for the bootstrap. *)
BootLength == Cardinality({a \in DOMAIN rom : rom[a].cmd = 0})

\* C11: the written output starts with the bootstrap, which sets SP to 256
\* and then performs the call protocol to Sys.init with zero arguments: no
\* instruction of a user command is emitted before it or executes before SP
\* is 256, and the first control transfer is the jump to Sys.init.
C11_BootstrapFirst ==
    LET boot == BootLength
    IN
        /\ written
        /\ SubSeq(output, 1, 4) = << At("256"), C("D=A"), At("SP"), C("M=D") >>
        /\ \A a \in DOMAIN rom : rom[a].cmd = 0 <=> a <= boot
        /\ firstJump = << >> =>
                /\ pc < boot
                /\ pc >= 4 => Read(ram, SP) \in StackBase..(StackBase + 5)
        /\ firstJump # << >> =>
                /\ firstJump[1].from = boot - 1
                /\ firstJump[1].to = LabelAddress(hackCommands, "Sys.init")
                /\ pc = firstJump[1].to
                /\ TypeOf(CommandOf(pc)) = "Function"
                /\ processedLines[CommandOf(pc)][2] = "Sys.init"
                /\ Read(ram, SP) = StackBase + 5
                /\ Read(ram, LCL) = StackBase + 5
                /\ Read(ram, ARG) = StackBase
                /\ Read(ram, StackBase + 1) = Read(ram0, LCL)
                /\ Read(ram, StackBase + 2) = Read(ram0, ARG)
                /\ Read(ram, StackBase + 3) = Read(ram0, THIS)
                /\ Read(ram, StackBase + 4) = Read(ram0, THAT)

C11_Witness ==
    /\ firstJump # << >>
    /\ processedLines[1] = PushConstant(7)
    /\ processedLines[2] = <<"Function", "f", 1>>
    /\ processedLines[3] = SysInit
    /\ pc = LabelAddress(hackCommands, "Sys.init")
    /\ Read(ram, SP) = StackBase + 5

---------------------------------------------------------------------------
(* One Push or Pop on its own: every segment GeneratePushCode and          *)
(* GeneratePopCode resolve an address for, with the registers and segments *)
(* laid out apart from each other and from the stack.                      *)

FrameSegments ==
    {"LCL", "ARG", "THIS", "THAT", "Pointer", "Temp", "Static", "Constant"}
FrameIndexes == {"0", "1"}

FrameCommands ==
    {<<"Push", s, i, "Main">> : s \in FrameSegments, i \in FrameIndexes}
    \cup {<<"Pop", s, i, "Main">> : s \in FrameSegments \ {"Constant"},
                                    i \in FrameIndexes}

FramePrograms == [c \in FrameCommands |-> Program(<< SysInit, c >>)]

FrameMemory(sp, v, top) ==
    Memory(<< <<LCL, 300>>, <<ARG, 290>>, <<THIS, 3000>>, <<THAT, 4000>>,
              <<5, v>>, <<6, v>>, <<16, v>>, <<17, v>>, <<18, v>>,
              <<300, v>>, <<301, v>>, <<290, v>>, <<291, v>>,
              <<3000, v>>, <<3001, v>>, <<4000, v>>, <<4001, v>>,
              <<R13, 1313>>, <<R13 + 1, 1414>>, <<R13 + 2, 1515>>,
              <<sp - 1, top>>, <<sp, 444>>, <<SP, sp>> >>)

InitFrame ==
    \E c \in FrameCommands, sp \in StackPointers :
    \E v \in {0, 77, Word - 1}, top \in {0, 111, Word - 1} :
        Loaded(FramePrograms[c], 2, FrameMemory(sp, v, top))

SpecFrame == InitFrame /\ [][NextRun]_vars

(* The cell the Push or Pop of line k addresses in the memory mem: base+i  *)
(* for the four based segments, THIS/THAT for Pointer, R5.. for Temp, and  *)
(* the address the assembler gives the symbol File.i for Static.           *)
Destination(k, mem) ==
    LET line == processedLines[k]
    IN  CASE MemorySegmentValue[line[2]] < 5 -> ResolvedAddress(k, mem)
          [] line[2] = "Pointer" -> THIS + int(line[3])
          [] line[2] = "Temp" -> 5 + int(line[3])
          [] line[2] = "Static" ->
                Resolve(hackCommands,
                        CHOOSE i \in DOMAIN hackCommands :
                            hackCommands[i] = At(line[4] \o "." \o line[3]))

---------------------------------------------------------------------------
\* C13: pop constant k is classified Invalid by the parser, so no parsed
\* line is a Pop of the Constant segment, nothing is written for a file
\* that holds one, and in every written output the D=A that saves a Pop's
\* destination to R13 directly follows an instruction that loads A.
C13_PopConstantRejected ==
    /\ \A k \in DOMAIN processedLines :
            ~ (processedLines[k][1] = "Pop" /\ processedLines[k][2] = "Constant")
    /\ written =>
            \A i \in 2..(Len(output) - 1) :
                (output[i] = C("D=A") /\ output[i + 1] = At("R13")) =>
                    output[i - 1].t = "@" \/ output[i - 1] = C("A=D+M")

---------------------------------------------------------------------------
(* The code of one Function command, entered as the Call protocol enters   *)
(* it: LCL = SP, ARG below the saved frame, and cells at and above SP      *)
(* holding values left by earlier use of the stack.                        *)

FunctionPrograms ==
    [k \in 0..MaxLocals |-> Program(<< SysInit, <<"Function", "f", k>> >>)]

EntryMemory(sp, n, v) ==
    Memory(<< <<THIS, 3000>>, <<THAT, 4000>>, <<R13, 1313>>, <<sp - 1, 111>> >>
           \o [i \in 1..(MaxLocals + 2) |-> <<sp + i - 1, Wrap(v + i - 1)>>]
           \o << <<ARG, sp - 5 - n>>, <<LCL, sp>>, <<SP, sp>> >>)

InitFunction ==
    \E k \in DOMAIN FunctionPrograms, sp \in StackPointers :
    \E n \in 0..MaxArgs, v \in {1, 77, Word - 1} :
        Loaded(FunctionPrograms[k], 2, EntryMemory(sp, n, v))

SpecFunction == InitFunction /\ [][NextRun]_vars

\* C14: for every localCount k >= 0 (k = 0 included), the code of
\* Function(name, k) entered with SP = s sets the k cells s .. s+k-1 to zero,
\* leaves SP = s + k and writes no other cell; with LCL = s on entry,
\* Local 0 .. k-1 all read 0 when the function body starts.
C14_FunctionZeroesLocals ==
    (exited = 2 /\ TypeOf(2) = "Function") =>
        LET s == Read(ram0, SP)
            k == processedLines[2][3]
        IN  /\ \A a \in s..(s + k - 1) : Read(ram, a) = 0
            /\ Read(ram, SP) = s + k
            /\ Changed({SP} \cup s..(s + k - 1)) = {}
            /\ Read(ram0, LCL) = s =>
                    \A i \in 0..(k - 1) : Read(ram, Read(ram, LCL) + i) = 0

C14_Witness ==
    /\ exited = 2
    /\ processedLines[2] = <<"Function", "f", MaxLocals>>
    /\ Read(ram0, LCL) = Read(ram0, SP)
    /\ \A i \in 0..(MaxLocals - 1) :
            /\ Read(ram0, Read(ram0, SP) + i) # 0
            /\ Read(ram, Read(ram, LCL) + i) = 0
    /\ Read(ram, SP) = Read(ram0, SP) + MaxLocals

=============================================================================
